---- MODULE Spec2Model ----
(***************************************************************************)
(* The request-handling pipeline of the web-service template:              *)
(* router -> extractors -> handlers -> user service -> storage, and the   *)
(* AppError -> response mapper.                                            *)
(*                                                                         *)
(* Every storage statement (SELECT / INSERT / UPDATE / DELETE) is one      *)
(* atomic step; a request is a task that runs its statements one after    *)
(* the other, and the statements of concurrent requests interleave.       *)
(* Statements are assumed to reach the database (pool and connectivity     *)
(* faults are outside the model); the statement-level errors the model     *)
(* keeps are the ones the rows themselves decide: a constraint violation   *)
(* and RowNotFound from fetch_one.                                         *)
(*                                                                         *)
(* The database clock: every INSERT and UPDATE statement is its own        *)
(* transaction and reads NOW() once; the model gives each of them a value  *)
(* later than the one before (now + 1).                                    *)
(*                                                                         *)
(* The table: id is the primary key. The migration that creates the table  *)
(* is not among the source files, and the source files declare no          *)
(* constraint on email. The design document says of the storage layer that *)
(* email is UNIQUE there; Spec is the service on such a table. The design   *)
(* document also says that uniqueness is enforced by the existence check    *)
(* of create and update; CheckOnlySpec is the service with that check as    *)
(* the only enforcement, the table accepting every row with a new id.       *)
(***************************************************************************)
EXTENDS Integers, FiniteSets, Sequences, TLC

\* ---------------------------------------------------------------- bounds
\* the number of INSERT and UPDATE statements a run executes, so the largest
\* value NOW() returns
MaxNow == 3

\* ------------------------------------------------------------ input sets
Tasks == {"t1", "t2"}
Uuids == {"u1", "u2"}
Emails == {"a@x.com", "b@x.com"}
Names == {"A", "B"}
NewNames == {"A"}
None == "None"

VARIABLES
    users,      \* the rows of table users
    now,        \* the database clock: the value the last NOW() returned
    usedIds,    \* every id Uuid::new_v4() has returned so far
    deleted,    \* history: ids whose DELETE affected a row
    updated,    \* history: ids whose UPDATE returned a row
    pc,         \* per task: the statement the request is about to run
    req,        \* per task: the request as received
    err,        \* per task: the AppError the service returned, or NoErr
    resp,       \* per task: the response sent
    uniqueEmail,\* whether the table carries the UNIQUE constraint on email
    mErr,       \* error mapper on its own: two AppError values
    mResp       \* error mapper on its own: their responses

vars == <<users, now, usedIds, deleted, updated, pc, req, err, resp,
          uniqueEmail, mErr, mResp>>
storeVars == <<users, now, usedIds, deleted, updated>>
taskVars == <<pc, req, err, resp>>
mapperVars == <<mErr, mResp>>
schemaVars == <<uniqueEmail>>

\* ------------------------------------------------------------- AppError
NoErr == [kind |-> "NoErr", msg |-> None, cause |-> None]
NoResp == [status |-> 0, body |-> [type |-> "none"]]

not_found(resource) == [kind |-> "NotFound", msg |-> resource, cause |-> None]
validation(msg) == [kind |-> "Validation", msg |-> msg, cause |-> None]
conflict(msg) == [kind |-> "Conflict", msg |-> msg, cause |-> None]
Unauthorized == [kind |-> "Unauthorized", msg |-> None, cause |-> None]
Forbidden == [kind |-> "Forbidden", msg |-> None, cause |-> None]
\* #[from] anyhow::Error
Internal(cause) == [kind |-> "Internal", msg |-> None, cause |-> cause]
\* #[from] sqlx::Error: what `?` applies to a failed statement
Database(cause) == [kind |-> "Database", msg |-> None, cause |-> cause]

ErrorBody(message, status) ==
    [type |-> "error", message |-> message, code |-> status]

into_response_EchoCause(e) ==
    LET sm == CASE e.kind = "NotFound" -> <<404, e.msg>>
                [] e.kind = "Validation" -> <<400, e.msg>>
                [] e.kind = "Unauthorized" -> <<401, "unauthorized">>
                [] e.kind = "Forbidden" -> <<403, "forbidden">>
                [] e.kind = "Conflict" -> <<409, e.msg>>
                [] e.kind = "Internal" -> <<500, "internal error">>
                [] e.kind = "Database" -> <<500, e.cause>>
    IN  [status |-> sm[1], body |-> ErrorBody(sm[2], sm[1])]

into_response(e) ==
    LET sm == CASE e.kind = "NotFound" -> <<404, e.msg>>
                [] e.kind = "Validation" -> <<400, e.msg>>
                [] e.kind = "Unauthorized" -> <<401, "unauthorized">>
                [] e.kind = "Forbidden" -> <<403, "forbidden">>
                [] e.kind = "Conflict" -> <<409, e.msg>>
                [] e.kind = "Internal" -> <<500, "internal error">>
                [] e.kind = "Database" -> <<500, "internal error">>
    IN  [status |-> sm[1], body |-> ErrorBody(sm[2], sm[1])]

\* ------------------------------------------------------------- storage
User(id, email, name, created_at, updated_at) ==
    [id |-> id, email |-> email, name |-> name,
     created_at |-> created_at, updated_at |-> updated_at]

\* fetch_optional: the first row the database yields, as an Option (a set
\* of at most one row). The queries have no ORDER BY, so with several rows
\* in the result any of them may come first: the operator gives every
\* Option the call may return.
fetch_optional(rows) ==
    IF rows = {} THEN {{}} ELSE {{u} : u \in rows}

\* SELECT * FROM users WHERE id = $1
find_by_id(us, id) == fetch_optional({u \in us : u.id = id})

find_by_email_Absent(us, email) == {{}}

\* SELECT * FROM users WHERE email = $1
find_by_email(us, email) == fetch_optional({u \in us : u.email = email})

\* The table's constraints: id is the primary key and, where the table
\* carries it, email is UNIQUE. A row (id, email) cannot be stored next to
\* another row with its id or, under the constraint, with its email.
UniqueViolation(us, id, email) ==
    /\ uniqueEmail
    /\ \E u \in us : u.id # id /\ u.email = email

PrimaryKeyViolation(us, id) ==
    \E u \in us : u.id = id

\* Uuid::new_v4(): the ids a call may return. A version-4 UUID is 122
\* random bits; a repeat of an earlier value is not an outcome.
new_v4(used) == Uuids \ used


\* INSERT INTO users (id, email, name, created_at, updated_at)
\* VALUES ($1, $2, $3, NOW(), NOW())
InsertRow_StaleCreatedAt(id, email, name, ts) == User(id, email, name, ts - 1, ts)

InsertRow(id, email, name, ts) == User(id, email, name, ts, ts)

\* COALESCE($n, column)
COALESCE(arg, column) == IF arg # None THEN arg ELSE column

\* SET email = COALESCE($2, email), name = COALESCE($3, name), updated_at = NOW()
SetClause_NoCoalesce(u, email, name, ts) ==
    User(u.id, COALESCE(email, u.email), name, u.created_at, ts)

SetClause(u, email, name, ts) ==
    User(u.id, COALESCE(email, u.email), COALESCE(name, u.name), u.created_at, ts)

\* DELETE FROM users WHERE id = $1: the rows that remain
DeleteWhere_AllRows(us, id) == IF \E u \in us : u.id = id THEN {} ELSE us

DeleteWhere(us, id) == {u \in us : u.id # id}

\* result.rows_affected()
rows_affected(us, id) == Cardinality({u \in us : u.id = id})

\* ------------------------------------------------------------ extractors
\* The :id path segment as received, and Path<Uuid> parsing it.
RawPaths == Uuids \cup {"not-a-uuid"}
ParsesAsUuid(segment) == segment \in Uuids

\* The body of POST /users as received.
CreateBodies ==
    {[kind |-> "ok", email |-> e, name |-> n] : e \in Emails, n \in NewNames}
        \cup {[kind |-> "syntax"], [kind |-> "data"]}

\* The body of PUT /users/:id as received: each field present or absent.
UpdateBodies ==
    {[kind |-> "ok", email |-> e, name |-> n] :
        e \in Emails \cup {None}, n \in Names \cup {None}}
        \cup {[kind |-> "syntax"], [kind |-> "data"]}

\* The bodies tried with a path: an extractor that fails ends the request
\* before the body is read, so two bodies stand for all of them there.
UpdateBodiesFor(path) ==
    IF ParsesAsUuid(path) THEN UpdateBodies
    ELSE {[kind |-> "ok", email |-> None, name |-> "B"], [kind |-> "syntax"]}

\* Path<Uuid> failing: the extractor's own rejection, sent as it is. No
\* handler and no AppError is involved.
PathRejection ==
    [status |-> 400, body |-> [type |-> "text", text |-> "Invalid URL"]]

\* Json<T> failing: the extractor's own rejection (400 for JSON that does not
\* parse, 422 for JSON that is not a T).
JsonRejection(kind) ==
    [status |-> IF kind = "syntax" THEN 400 ELSE 422,
     body |-> [type |-> "text", text |-> "Failed to parse the request body"]]

\* Json(user) and the handlers' success statuses
UserJson(status, u) == [status |-> status, body |-> [type |-> "user", user |-> u]]
NoContent == [status |-> 204, body |-> [type |-> "empty"]]

\* -------------------------------------------------------------- requests
Idle(t) == pc[t] \in {"idle", "done"}

WritePcs == {"create_find_by_email", "create_insert",
             "update_find_by_id", "update_find_by_email", "update_stmt"}
PendingWrites == Cardinality({t \in Tasks : pc[t] \in WritePcs})
PendingCreates ==
    Cardinality({t \in Tasks : pc[t] \in {"create_find_by_email", "create_insert"}})

\* The request ends: the handler returns Err(e) and into_response runs.
Fail(t, e) ==
    /\ pc' = [pc EXCEPT ![t] = "done"]
    /\ err' = [err EXCEPT ![t] = e]
    /\ resp' = [resp EXCEPT ![t] = into_response(e)]

\* The request ends with the handler's Ok value.
Succeed(t, r) ==
    /\ pc' = [pc EXCEPT ![t] = "done"]
    /\ err' = [err EXCEPT ![t] = NoErr]
    /\ resp' = [resp EXCEPT ![t] = r]

\* The request ends in the extractor, before the handler body.
Reject(t, r) ==
    /\ pc' = [pc EXCEPT ![t] = "done"]
    /\ err' = [err EXCEPT ![t] = NoErr]
    /\ resp' = [resp EXCEPT ![t] = r]

\* The request goes on to its next statement.
Goto(t, label) ==
    /\ pc' = [pc EXCEPT ![t] = label]
    /\ err' = [err EXCEPT ![t] = NoErr]
    /\ resp' = [resp EXCEPT ![t] = NoResp]

\* GET /api/v1/users/:id
get_recv(t, path) ==
    /\ Idle(t)
    /\ req' = [req EXCEPT ![t] = [op |-> "get", path |-> path]]
    /\ IF ParsesAsUuid(path) THEN Goto(t, "get_find_by_id") ELSE Reject(t, PathRejection)
    /\ UNCHANGED <<storeVars, mapperVars, schemaVars>>

get_find_by_id(t) ==
    /\ pc[t] = "get_find_by_id"
    /\ \E found \in find_by_id(users, req[t].path) :
           IF found = {}
           THEN Fail(t, not_found("user"))
           ELSE \E u \in found : Succeed(t, UserJson(200, u))
    /\ UNCHANGED <<storeVars, req, mapperVars, schemaVars>>

\* POST /api/v1/users
create_recv(t, body) ==
    /\ Idle(t)
    /\ now + PendingWrites < MaxNow
    /\ Cardinality(usedIds) + PendingCreates < Cardinality(Uuids)
    /\ req' = [req EXCEPT ![t] = [op |-> "create", body |-> body]]
    /\ IF body.kind = "ok"
       THEN Goto(t, "create_find_by_email")
       ELSE Reject(t, JsonRejection(body.kind))
    /\ UNCHANGED <<storeVars, mapperVars, schemaVars>>

create_find_by_email(t) ==
    /\ pc[t] = "create_find_by_email"
    /\ \E found \in find_by_email(users, req[t].body.email) :
           IF found # {}
           THEN Fail(t, conflict("email already exists"))
           ELSE Goto(t, "create_insert")
    /\ UNCHANGED <<storeVars, req, mapperVars, schemaVars>>

create_insert(t) ==
    /\ pc[t] = "create_insert"
    /\ \E id \in new_v4(usedIds) :
        LET body == req[t].body
            user == InsertRow(id, body.email, body.name, now + 1)
        IN  /\ usedIds' = usedIds \cup {id}
            /\ now' = now + 1
            /\ IF PrimaryKeyViolation(users, id)
                    \/ UniqueViolation(users, id, body.email)
               THEN /\ Fail(t, Database("unique_violation"))
                    /\ users' = users
               ELSE /\ Succeed(t, UserJson(201, user))
                    /\ users' = users \cup {user}
    /\ UNCHANGED <<deleted, updated, req, mapperVars, schemaVars>>

\* PUT /api/v1/users/:id
update_recv(t, path, body) ==
    /\ Idle(t)
    /\ now + PendingWrites < MaxNow
    /\ req' = [req EXCEPT ![t] = [op |-> "update", path |-> path, body |-> body]]
    /\ IF ~ParsesAsUuid(path) THEN Reject(t, PathRejection)
       ELSE IF body.kind # "ok" THEN Reject(t, JsonRejection(body.kind))
       ELSE Goto(t, "update_find_by_id")
    /\ UNCHANGED <<storeVars, mapperVars, schemaVars>>

update_find_by_id(t) ==
    /\ pc[t] = "update_find_by_id"
    /\ \E found \in find_by_id(users, req[t].path) :
           IF found = {}
           THEN Fail(t, not_found("user"))
           ELSE IF req[t].body.email # None
           THEN Goto(t, "update_find_by_email")
           ELSE Goto(t, "update_stmt")
    /\ UNCHANGED <<storeVars, req, mapperVars, schemaVars>>

update_find_by_email(t) ==
    /\ pc[t] = "update_find_by_email"
    /\ \E found \in find_by_email(users, req[t].body.email) :
           IF \E existing \in found : existing.id # req[t].path
           THEN Fail(t, conflict("email already exists"))
           ELSE Goto(t, "update_stmt")
    /\ UNCHANGED <<storeVars, req, mapperVars, schemaVars>>

update_stmt(t) ==
    /\ pc[t] = "update_stmt"
    /\ now' = now + 1
    /\ LET id == req[t].path
           body == req[t].body
           rows == {u \in users : u.id = id}
       IN  IF rows = {}
           THEN \* fetch_one on an empty result
                /\ Fail(t, Database("RowNotFound"))
                /\ UNCHANGED <<users, updated>>
           ELSE \E u \in rows :
                LET new == SetClause(u, body.email, body.name, now + 1)
                IN  IF UniqueViolation(users, id, new.email)
                    THEN /\ Fail(t, Database("unique_violation"))
                         /\ UNCHANGED <<users, updated>>
                    ELSE /\ Succeed(t, UserJson(200, new))
                         /\ users' = (users \ {u}) \cup {new}
                         /\ updated' = updated \cup {id}
    /\ UNCHANGED <<usedIds, deleted, req, mapperVars, schemaVars>>

\* DELETE /api/v1/users/:id
delete_recv(t, path) ==
    /\ Idle(t)
    /\ req' = [req EXCEPT ![t] = [op |-> "delete", path |-> path]]
    /\ IF ParsesAsUuid(path) THEN Goto(t, "delete_stmt") ELSE Reject(t, PathRejection)
    /\ UNCHANGED <<storeVars, mapperVars, schemaVars>>

delete_stmt(t) ==
    /\ pc[t] = "delete_stmt"
    /\ LET id == req[t].path
       IN  IF rows_affected(users, id) = 0
           THEN /\ Fail(t, not_found("user"))
                /\ UNCHANGED <<users, deleted>>
           ELSE /\ Succeed(t, NoContent)
                /\ users' = DeleteWhere(users, id)
                /\ deleted' = deleted \cup {id}
    /\ UNCHANGED <<now, usedIds, updated, req, mapperVars, schemaVars>>

\* ------------------------------------------------------------ the service
Slots == {"x", "y"}

Init ==
    /\ users = {}
    /\ now = 0
    /\ usedIds = {}
    /\ deleted = {}
    /\ updated = {}
    /\ pc = [t \in Tasks |-> "idle"]
    /\ req = [t \in Tasks |-> [op |-> "none"]]
    /\ err = [t \in Tasks |-> NoErr]
    /\ resp = [t \in Tasks |-> NoResp]
    /\ uniqueEmail = TRUE
    /\ mErr = [s \in Slots |-> NoErr]
    /\ mResp = [s \in Slots |-> NoResp]

Next ==
    \E t \in Tasks :
        \/ \E path \in RawPaths : get_recv(t, path)
        \/ get_find_by_id(t)
        \/ \E body \in CreateBodies : create_recv(t, body)
        \/ create_find_by_email(t)
        \/ create_insert(t)
        \/ \E path \in RawPaths :
                \E body \in UpdateBodiesFor(path) : update_recv(t, path, body)
        \/ update_find_by_id(t)
        \/ update_find_by_email(t)
        \/ update_stmt(t)
        \/ \E path \in RawPaths : delete_recv(t, path)
        \/ delete_stmt(t)

Spec == Init /\ [][Next]_vars

\* The service with the existence check of create and update as the only
\* enforcement of email uniqueness.
CheckOnlyInit ==
    /\ users = {}
    /\ now = 0
    /\ usedIds = {}
    /\ deleted = {}
    /\ updated = {}
    /\ pc = [t \in Tasks |-> "idle"]
    /\ req = [t \in Tasks |-> [op |-> "none"]]
    /\ err = [t \in Tasks |-> NoErr]
    /\ resp = [t \in Tasks |-> NoResp]
    /\ uniqueEmail = FALSE
    /\ mErr = [s \in Slots |-> NoErr]
    /\ mResp = [s \in Slots |-> NoResp]

CheckOnlySpec == CheckOnlyInit /\ [][Next]_vars

\* ------------------------------------------------- the error mapper alone
Messages == {"user", "email already exists", "name is required"}
Causes == {"unique_violation", "RowNotFound", "PoolTimedOut"}

\* Every value of enum AppError
AppErrors ==
    {not_found(m) : m \in Messages} \cup {validation(m) : m \in Messages}
        \cup {Unauthorized, Forbidden} \cup {conflict(m) : m \in Messages}
        \cup {Internal(c) : c \in Causes} \cup {Database(c) : c \in Causes}

MapperInit ==
    /\ users = {}
    /\ now = 0
    /\ usedIds = {}
    /\ deleted = {}
    /\ updated = {}
    /\ pc = [t \in Tasks |-> "idle"]
    /\ req = [t \in Tasks |-> [op |-> "none"]]
    /\ err = [t \in Tasks |-> NoErr]
    /\ resp = [t \in Tasks |-> NoResp]
    /\ uniqueEmail = TRUE
    /\ mErr \in [Slots -> AppErrors]
    /\ mResp = [s \in Slots |-> NoResp]

map_error(s) ==
    /\ mResp[s] = NoResp
    /\ mResp' = [mResp EXCEPT ![s] = into_response(mErr[s])]
    /\ UNCHANGED <<storeVars, taskVars, schemaVars, mErr>>

MapperNext == \E s \in Slots : map_error(s)

MapperSpec == MapperInit /\ [][MapperNext]_vars

\* ================================================================ claims
HoldsEmail(us, email) == \E u \in us : u.email = email
OtherHoldsEmail(us, id, email) == \E u \in us : u.email = email /\ u.id # id
Stored(us, id) == \E u \in us : u.id = id
Row(us, id) == CHOOSE u \in us : u.id = id
ErrorResponse(status, message) ==
    [status |-> status, body |-> ErrorBody(message, status)]
\* task t takes a step from the statement `label`
Runs(t, label) == pc[t] = label /\ pc'[t] # label

C2_ConstraintRejectionIsConflict ==
    [][\A t \in Tasks :
        /\ (Runs(t, "create_insert") /\ HoldsEmail(users, req[t].body.email))
            => (err'[t].kind = "Conflict" /\ resp'[t].status = 409)
        /\ (/\ Runs(t, "update_stmt")
            /\ Stored(users, req[t].path)
            /\ req[t].body.email # None
            /\ OtherHoldsEmail(users, req[t].path, req[t].body.email))
            => (err'[t].kind = "Conflict" /\ resp'[t].status = 409)]_vars

\* C3: find_by_id, update and delete on an id that is not stored when the
\* statement runs end with NotFound and status 404; that includes the UPDATE
\* of a row deleted after update's own find_by_id.
C3_AbsentIdIsNotFound ==
    [][\A t \in Tasks :
        (/\ \/ Runs(t, "get_find_by_id")
            \/ Runs(t, "update_find_by_id")
            \/ Runs(t, "update_stmt")
            \/ Runs(t, "delete_stmt")
         /\ ~Stored(users, req[t].path))
        => /\ pc'[t] = "done"
           /\ err'[t] = not_found("user")
           /\ resp'[t] = ErrorResponse(404, "user")]_vars

\* C4: a create whose email a stored user holds when create's find_by_email
\* runs ends there with Conflict "email already exists" (409), and the
\* stored users are the same after it as before.
C4_CreateExistingEmailConflicts ==
    [][\A t \in Tasks :
        (Runs(t, "create_find_by_email") /\ HoldsEmail(users, req[t].body.email))
        => /\ pc'[t] = "done"
           /\ err'[t] = conflict("email already exists")
           /\ resp'[t] = ErrorResponse(409, "email already exists")
           /\ users' = users]_vars

C4_Witness ==
    \E t \in Tasks :
        /\ pc[t] = "done" /\ req[t].op = "create"
        /\ resp[t] = ErrorResponse(409, "email already exists")
        /\ HoldsEmail(users, req[t].body.email)

\* C5: a successful update overwrites exactly the fields present in its
\* input, leaves the absent fields, the id and created_at as they were,
\* leaves every other user as it was, strictly increases updated_at, and
\* returns the stored row.
C5_PartialUpdate ==
    [][\A t \in Tasks :
        (Runs(t, "update_stmt") /\ resp'[t].status = 200)
        => /\ Stored(users, req[t].path)
           /\ LET old == Row(users, req[t].path)
                  in == req[t].body
                  new == resp'[t].body.user
              IN  /\ new \in users'
                  /\ users' \ {new} = users \ {old}
                  /\ new.id = old.id
                  /\ new.created_at = old.created_at
                  /\ new.email = (IF in.email = None THEN old.email ELSE in.email)
                  /\ new.name = (IF in.name = None THEN old.name ELSE in.name)
                  /\ new.updated_at > old.updated_at]_vars

\* An update with only name set went through: the name is the new one and
\* the email is the one the user was created with.
C5_Witness ==
    \E t, c \in Tasks :
        /\ pc[t] = "done" /\ req[t].op = "update" /\ resp[t].status = 200
        /\ req[t].body.email = None /\ req[t].body.name = "B"
        /\ pc[c] = "done" /\ req[c].op = "create" /\ resp[c].status = 201
        /\ resp[c].body.user.id = req[t].path
        /\ resp[c].body.user.name = "A"
        /\ resp[t].body.user.name = "B"
        /\ resp[t].body.user.email = resp[c].body.user.email
        /\ resp[t].body.user.updated_at > resp[c].body.user.updated_at
        /\ resp[t].body.user \in users

\* C6: an update with email present, on a stored id: it fails with Conflict,
\* the store unchanged, if and only if a stored user with another id holds
\* that email; otherwise it is not rejected as a conflict and succeeds.
C6_UpdateConflictIffOtherHolder ==
    [][\A t \in Tasks :
        (/\ Runs(t, "update_find_by_email") \/ Runs(t, "update_stmt")
         /\ req[t].body.email # None
         /\ Stored(users, req[t].path))
        => IF OtherHoldsEmail(users, req[t].path, req[t].body.email)
           THEN /\ err'[t] = conflict("email already exists")
                /\ resp'[t].status = 409
                /\ users' = users
           ELSE /\ err'[t].kind # "Conflict"
                /\ pc[t] = "update_stmt" => resp'[t].status = 200]_vars

\* C7: a request with a malformed path id or body ends at the handler
\* boundary with error kind Validation and status 400, with no statement
\* run; and every response that is not 2xx carries the error JSON body.
Malformed(r) ==
    \/ r.op \in {"get", "update", "delete"} /\ ~ParsesAsUuid(r.path)
    \/ r.op \in {"create", "update"} /\ r.body.kind # "ok"
IsErrorJson(r) ==
    /\ r.body.type = "error"
    /\ r.body.code = r.status
C7_MalformedIsValidation ==
    [][\A t \in Tasks :
        /\ (Idle(t) /\ pc'[t] # pc[t] /\ Malformed(req'[t]))
            => /\ pc'[t] = "done"
               /\ UNCHANGED storeVars
               /\ err'[t].kind = "Validation"
               /\ resp'[t].status = 400
               /\ IsErrorJson(resp'[t])
        /\ (pc'[t] = "done" /\ resp'[t].status \notin 200..299)
            => IsErrorJson(resp'[t])]_vars

\* C8: into_response maps NotFound to 404, Validation to 400, Unauthorized to
\* 401, Forbidden to 403, Conflict to 409, Internal and Database to 500; the
\* body's code is the status; and Internal and Database carry one fixed
\* message, so two of them with different causes get the same response.
StatusOfKind ==
    [NotFound |-> 404, Validation |-> 400, Unauthorized |-> 401,
     Forbidden |-> 403, Conflict |-> 409, Internal |-> 500, Database |-> 500]
C8_MapperTable ==
    /\ \A s \in Slots :
        mResp[s] # NoResp
        => /\ mResp[s].status = StatusOfKind[mErr[s].kind]
           /\ mResp[s].body.type = "error"
           /\ mResp[s].body.code = mResp[s].status
           /\ mErr[s].kind \in {"Internal", "Database"}
                => mResp[s].body.message = "internal error"
    /\ \A s1, s2 \in Slots :
        (/\ mResp[s1] # NoResp /\ mResp[s2] # NoResp
         /\ mErr[s1].kind \in {"Internal", "Database"}
         /\ mErr[s2].kind \in {"Internal", "Database"})
        => mResp[s1] = mResp[s2]

\* Two Database errors with different causes have both been mapped.
C8_Witness ==
    \E s1, s2 \in Slots :
        /\ mErr[s1].kind = "Database" /\ mErr[s2].kind = "Database"
        /\ mErr[s1].cause # mErr[s2].cause
        /\ mResp[s1] # NoResp /\ mResp[s2] # NoResp

\* C9: a delete of a stored id answers 204 and removes that row and no
\* other; the id is absent from then on, and every later delete or
\* find_by_id of it ends with NotFound (404).
C9_DeleteIsPermanent ==
    [][/\ \A id \in deleted' : ~Stored(users', id)
       /\ \A t \in Tasks :
            /\ (Runs(t, "delete_stmt") /\ Stored(users, req[t].path))
                => /\ resp'[t] = NoContent
                   /\ users' = users \ {Row(users, req[t].path)}
                   /\ req[t].path \in deleted'
            /\ (/\ Runs(t, "delete_stmt") \/ Runs(t, "get_find_by_id")
                /\ req[t].path \in deleted)
                => /\ err'[t] = not_found("user")
                   /\ resp'[t] = ErrorResponse(404, "user")
                   /\ users' = users]_vars

\* A second delete of a deleted id has answered 404, next to another user
\* that is still stored.
C9_Witness ==
    \E t1, t2 \in Tasks :
        /\ t1 # t2
        /\ pc[t1] = "done" /\ req[t1].op = "delete" /\ resp[t1] = NoContent
        /\ pc[t2] = "done" /\ req[t2].op = "delete"
        /\ req[t2].path = req[t1].path
        /\ resp[t2] = ErrorResponse(404, "user")
        /\ users # {}

\* C10: a create whose email no stored user holds when its INSERT runs
\* succeeds (201) with a user whose id no user holds or ever held, whose
\* email and name are the input's and whose created_at is its updated_at;
\* and while that id has been neither updated nor deleted, find_by_id of it
\* returns that very user.
C10_CreateRoundTrip ==
    [][\A t \in Tasks :
        /\ (Runs(t, "create_insert") /\ ~HoldsEmail(users, req[t].body.email))
            => /\ resp'[t].status = 201
               /\ LET r == resp'[t].body.user
                  IN  /\ ~Stored(users, r.id)
                      /\ r.id \notin deleted
                      /\ r.email = req[t].body.email
                      /\ r.name = req[t].body.name
                      /\ r.created_at = r.updated_at
                      /\ users' = users \cup {r}
        /\ Runs(t, "get_find_by_id")
            => \A c \in Tasks :
                (/\ pc[c] = "done" /\ req[c].op = "create"
                 /\ resp[c].status = 201
                 /\ resp[c].body.user.id = req[t].path
                 /\ req[t].path \notin updated \cup deleted)
                => resp'[t] = UserJson(200, resp[c].body.user)]_vars

\* A find_by_id has returned the user a create returned.
C10_Witness ==
    \E t, c \in Tasks :
        /\ pc[c] = "done" /\ req[c].op = "create" /\ resp[c].status = 201
        /\ pc[t] = "done" /\ req[t].op = "get"
        /\ req[t].path = resp[c].body.user.id
        /\ resp[t] = UserJson(200, resp[c].body.user)
        /\ req[t].path \notin updated \cup deleted
====
